---------------------------- MODULE Spec2Model ----------------------------
(***************************************************************************)
(* OmniLex OCR: the application state of src/App.tsx (processing runs,     *)
(* cancellation, selection, export) and the document assembly of           *)
(* src/services/docxService.ts (block ordering, table reconstruction,      *)
(* image cropping, text formatting).                                       *)
(*                                                                         *)
(* Arrays are sequences, so the code's index i is i + 1 here               *)
(* (box_2d[0] is box_2d[1]).  A string that the code splits is a sequence  *)
(* of one-character strings.  The display-only strings `progress` and      *)
(* `selectedBlockId` are written but never read by any handler and are     *)
(* left out.                                                               *)
(***************************************************************************)
EXTENDS Integers, Sequences, FiniteSets, TLC

VARIABLES
    \* ---- src/App.tsx: component state (lines 15-24) and running calls
    currentView,      \* useState<View>
    isLoading,        \* useState(false)
    results,          \* useState<DocumentResult | null>: Null or <<document>>
    activePageIndex,  \* useState(0)
    error,            \* useState<string | null>
    exportMode,       \* useState<'selected' | 'all'>
    cancelRef,        \* useRef<boolean>(false): cancelRef.current
    runs,             \* the processFiles calls started so far, each with its position and locals
    exports,          \* the handleExport calls awaiting generateDocx: their oldView
    ocrCall,          \* a performOCR call: the parsed response, the Math.random draws and,
                      \* once it has returned, <<the blocks returned>>; Null when none is looked at
    lastArea,         \* history: Null or <<the rectangle and the active page's blocks before>>
                      \* when handleAreaSelection was the last change of the selection
    \* ---- src/services/docxService.ts: generateDocx's parameters, locals and position
    pages,            \* parameter pages
    exportAll,        \* parameter exportAll
    pc,               \* position inside generateDocx
    pageIdx,          \* position of `for (const p of pages)`
    blocksToExport,   \* const blocksToExport
    sortedBlocks,     \* const sortedBlocks
    blockIdx,         \* position of `for (const block of sortedBlocks)`
    children,         \* const children
    sections,         \* const sections
    artifact,         \* TRUE once link.click() has offered the .docx for download
    cropFailed        \* history: ids of the blocks whose cropImage call was rejected

appVars == <<currentView, isLoading, results, activePageIndex, error, exportMode,
             cancelRef, runs, exports, lastArea, ocrCall>>
docxVars == <<pages, exportAll, pc, pageIdx, blocksToExport, sortedBlocks, blockIdx,
              children, sections, artifact, cropFailed>>
vars == <<appVars, docxVars>>

\* null / undefined of a nullable value held as a sequence of at most one element
Null == <<>>

-----------------------------------------------------------------------------
(* Bounds of the model *)

\* cells of one table block, and the largest row / col index
MaxCells == 3
MaxIdx == 2
\* blocks handed to one sort
MaxSortLen == 3
\* pages of an exported document, and blocks of all its pages together
MaxPages == 2
MaxDocBlocks == 2
\* processFiles calls of a session, files of one call, pages of one PDF
MaxRuns == 2
MaxFiles == 2
MaxPdfPages == 2
\* handleExport calls awaiting generateDocx at the same time
MaxPendingExports == 1
\* pages of a document whose blocks are selected, and blocks of one such page
MaxTextLen == 3

MaxSelPages == 2
MaxSelBlocks == 2

-----------------------------------------------------------------------------
(* Generic helpers *)

Abs(n) == IF n < 0 THEN -n ELSE n

Range(s) == {s[i] : i \in DOMAIN s}

SetMax(S) == CHOOSE m \in S : \A x \in S : x <= m

SeqsUpTo(S, n) == UNION {[1..k -> S] : k \in 0..n}

RECURSIVE Concat(_)
Concat(ss) == IF ss = <<>> THEN <<>> ELSE Head(ss) \o Concat(Tail(ss))

Injections(n) == {p \in [1..n -> 1..n] : \A i, j \in 1..n : p[i] = p[j] => i = j}

PermutationsOf(s) == {[i \in 1..Len(s) |-> s[p[i]]] : p \in Injections(Len(s))}

-----------------------------------------------------------------------------
(* src/types.ts *)

PARAGRAPH == "paragraph"
HEADER == "header"
TABLE == "table"
LIST == "list"
IMAGE_PLACEHOLDER == "image_placeholder"
BlockType == {PARAGRAPH, HEADER, TABLE, LIST, IMAGE_PLACEHOLDER}

\* An OCRBlock.  An absent tableData is the empty list (both fail the test of
\* docxService.ts:85); an absent isBold / isSelected is FALSE (both are falsy).
OCRBlock(id, type, text, box, tableData, isBold, isSelected) ==
    [id |-> id, type |-> type, text |-> text, box_2d |-> box,
     tableData |-> tableData, isBold |-> isBold, isSelected |-> isSelected]

TableCell(text, row, col) == [text |-> text, row |-> row, col |-> col]


\* A PageResult (width and height are stored by App.tsx and never read)
PageResult(pageNumber, imageUrl, blocks) ==
    [pageNumber |-> pageNumber, imageUrl |-> imageUrl, blocks |-> blocks]

-----------------------------------------------------------------------------
(* src/services/docxService.ts: the elements generateDocx builds *)

\* new Paragraph({children: [new ImageRun(...)], alignment: CENTER, ...}), lines 67-79;
\* a size x * 0.5 is kept as the fraction <<x, 2>>
ImageParagraph(block, imageBuffer) ==
    [kind |-> "image", data |-> imageBuffer,
     width |-> <<block.box_2d[4] - block.box_2d[2], 2>>,
     height |-> <<block.box_2d[3] - block.box_2d[1], 2>>,
     alignment |-> "CENTER", src |-> block.id]

\* new Table({rows, ...}), lines 113-124
TableElement(block, rows) == [kind |-> "table", rows |-> rows, src |-> block.id]

\* new Paragraph({ spacing: { before: 200, after: 200 } }), line 125
SpacerParagraph(block) == [kind |-> "spacer", src |-> block.id]

-----------------------------------------------------------------------------
(* Block Orderer: docxService.ts lines 52-58 *)

LineTolerance == 20

\* the comparator with the tolerance test left out: blocks ordered by ymin alone
compareByYminOnly(a, b) == a.box_2d[1] - b.box_2d[1]

\* the comparator handed to sort, lines 52-58
compareBlocks(a, b) ==
    LET diff == a.box_2d[1] - b.box_2d[1]
    IN  IF Abs(diff) < LineTolerance THEN a.box_2d[2] - b.box_2d[2] ELSE diff

\* ECMAScript's "consistent comparator" on the elements of s: = , < and > are
\* transitive (reflexivity, symmetry and determinism hold of compareBlocks as written)
ConsistentComparator(s) ==
    \A a, b, c \in Range(s) :
        /\ (compareBlocks(a, b) = 0 /\ compareBlocks(b, c) = 0) => compareBlocks(a, c) = 0
        /\ (compareBlocks(a, b) < 0 /\ compareBlocks(b, c) < 0) => compareBlocks(a, c) < 0
        /\ (compareBlocks(a, b) > 0 /\ compareBlocks(b, c) > 0) => compareBlocks(a, c) > 0

\* x put behind the last element of the sorted s that is not greater than x
RECURSIVE InsertBlock(_, _)
InsertBlock(s, x) ==
    IF s = <<>> THEN <<x>>
    ELSE IF compareBlocks(s[Len(s)], x) > 0
         THEN Append(InsertBlock(SubSeq(s, 1, Len(s) - 1), x), s[Len(s)])
         ELSE Append(s, x)

\* the stable sort of s by compareBlocks
RECURSIVE StableSort(_)
StableSort(s) ==
    IF s = <<>> THEN <<>>
    ELSE InsertBlock(StableSort(SubSeq(s, 1, Len(s) - 1)), s[Len(s)])

\* Array.prototype.sort: with a consistent comparator the result is the stable
\* sorted order; otherwise ECMAScript leaves the order implementation-defined
\* and every permutation of the input is a possible result.
ArraySort(s) ==
    IF ConsistentComparator(s) THEN {StableSort(s)} ELSE PermutationsOf(s)

-----------------------------------------------------------------------------
(* Table Reconstructor: docxService.ts lines 86-111 *)

\* a slip that takes the column count from the row indices
maxColFromRows(tableData) == SetMax({d.row : d \in Range(tableData)})

\* Math.max(...block.tableData.map(d => d.row)), line 86
maxRow(tableData) == SetMax({d.row : d \in Range(tableData)})

\* Math.max(...block.tableData.map(d => d.col)), line 87
maxCol(tableData) == SetMax({d.col : d \in Range(tableData)})

\* a slip that takes the last match
findCellLast(tableData, r, c) ==
    LET hits == {i \in DOMAIN tableData : tableData[i].row = r /\ tableData[i].col = c}
    IN  IF hits = {} THEN Null
        ELSE <<tableData[CHOOSE i \in hits : \A j \in hits : i >= j]>>

\* block.tableData.find(td => td.row === r && td.col === c), line 93:
\* the first match as <<cell>>, or Null when there is none
findCell(tableData, r, c) ==
    LET hits == {i \in DOMAIN tableData : tableData[i].row = r /\ tableData[i].col = c}
    IN  IF hits = {} THEN Null
        ELSE <<tableData[CHOOSE i \in hits : \A j \in hits : i <= j]>>

\* cellData?.text || "", line 99
cellText(cellData) == IF cellData = Null THEN "" ELSE cellData[1].text

\* the rows built by the loops of lines 89-111: row r, column c at [r + 1][c + 1];
\* the width 100 / (maxCol + 1) percent is kept as a fraction
tableRows(tableData) ==
    [r1 \in 1..(maxRow(tableData) + 1) |->
        [c1 \in 1..(maxCol(tableData) + 1) |->
            [text |-> cellText(findCell(tableData, r1 - 1, c1 - 1)),
             width |-> <<100, maxCol(tableData) + 1>>]]]

-----------------------------------------------------------------------------
(* Text formatting: docxService.ts lines 129-151 *)

\* block.text.split('\n'): the lines of a text, at least one
RECURSIVE splitLines(_)
splitLines(text) ==
    IF text = <<>> THEN << <<>> >>
    ELSE LET rest == splitLines(Tail(text))
         IN  IF Head(text) = "\n" THEN << <<>> >> \o rest
             ELSE << <<Head(text)>> \o Head(rest) >> \o Tail(rest)

\* line.replace(/\t/g, '    '), line 134
replaceTabs(line) ==
    Concat([i \in 1..Len(line) |->
               IF line[i] = "\t" THEN <<" ", " ", " ", " ">> ELSE <<line[i]>>])

\* line 133
leadingSpaces(block) ==
    IF block.box_2d[2] > 400 THEN <<"\t", "\t">>
    ELSE IF block.box_2d[2] > 200 THEN <<"\t">> ELSE <<>>

\* line 145
textAlignment(block) ==
    IF block.box_2d[2] > 600 THEN "RIGHT"
    ELSE IF block.box_2d[2] > 300 /\ block.box_2d[4] < 700 THEN "CENTER" ELSE "LEFT"

\* a slip that takes headers only for bold
TextParagraphHeaderBoldOnly(block, lines, index) ==
    [kind |-> "text",
     text |-> leadingSpaces(block) \o replaceTabs(lines[index + 1]),
     size |-> IF block.type = HEADER THEN 28 ELSE 22,
     bold |-> (block.type = HEADER),
     alignment |-> textAlignment(block),
     after |-> IF index = Len(lines) - 1 THEN 200 ELSE 50,
     src |-> block.id]

\* the Paragraph pushed for line number index (0-based) of lines, lines 136-150
TextParagraph(block, lines, index) ==
    [kind |-> "text",
     text |-> leadingSpaces(block) \o replaceTabs(lines[index + 1]),
     size |-> IF block.type = HEADER THEN 28 ELSE 22,
     bold |-> (block.type = HEADER \/ block.isBold),
     alignment |-> textAlignment(block),
     after |-> IF index = Len(lines) - 1 THEN 200 ELSE 50,
     src |-> block.id]

\* lines.forEach(...), lines 129-151
textParagraphs(block) ==
    LET lines == splitLines(block.text)
    IN  [k \in 1..Len(lines) |-> TextParagraph(block, lines, k - 1)]


-----------------------------------------------------------------------------
(* Image Cropper: docxService.ts lines 8-38 *)

\* The outcomes of cropImage(base64, box): Null when the promise is rejected
\* (img.onerror, no 2d context, or toBlob handing back no blob, as it does for a
\* canvas of zero width or height), else <<the cropped bytes>>.
cropImage(base64, box) ==
    {Null} \cup
    (IF box[4] - box[2] > 0 /\ box[3] - box[1] > 0
     THEN {<< [image |-> base64, box |-> box] >>} ELSE {})

-----------------------------------------------------------------------------
(* generateDocx: docxService.ts lines 43-194.  The code between two awaits  *)
(* runs without interruption and touches only locals, so the loop           *)
(* iterations are taken one at a time.                                      *)

\* the block the inner loop is at
block == sortedBlocks[blockIdx]

\* a slip that treats every block as eligible
filterNothing(p, all) == p.blocks

\* a slip that exports the selected blocks in either mode
filterSelectedAlways(p, all) == SelectSeq(p.blocks, LAMBDA b : b.isSelected)

\* line 48
eligibleBlocks(p, all) ==
    IF all THEN p.blocks ELSE SelectSeq(p.blocks, LAMBDA b : b.isSelected)

\* lines 47-49: the outer loop takes the next page and filters its blocks; a page
\* without eligible blocks is passed over
StartPage ==
    /\ pc = "page"
    /\ pageIdx <= Len(pages)
    /\ blocksToExport' = eligibleBlocks(pages[pageIdx], exportAll)
    /\ IF Len(blocksToExport') = 0
       THEN /\ pageIdx' = pageIdx + 1
            /\ pc' = "page"
       ELSE /\ pageIdx' = pageIdx
            /\ pc' = "sort"
    /\ UNCHANGED <<pages, exportAll, sortedBlocks, blockIdx, children, sections,
                   artifact, cropFailed>>
    /\ UNCHANGED appVars

\* a sort in place: with exportAll, blocksToExport is the page's own array
pagesSortedInPlace(sorted) ==
    IF exportAll THEN [pages EXCEPT ![pageIdx].blocks = sorted] ELSE pages

\* line 52: [...blocksToExport].sort(...) sorts a copy; the parameter pages is as
\* it was
pagesAfterSort(sorted) == pages

\* lines 52-60: a copy of the eligible blocks is sorted; children starts empty
SortBlocks ==
    /\ pc = "sort"
    /\ sortedBlocks' \in ArraySort(blocksToExport)
    /\ pages' = pagesAfterSort(sortedBlocks')
    /\ children' = <<>>
    /\ blockIdx' = 1
    /\ pc' = "block"
    /\ UNCHANGED <<exportAll, pageIdx, blocksToExport, sections, artifact,
                   cropFailed>>
    /\ UNCHANGED appVars

\* a slip that leaves the block loop when a crop fails
cropRejectedBreaks(idx) == Len(sortedBlocks) + 1

\* lines 80-82: the catch of a rejected crop; the loop goes on with the next block
cropRejectedNext(idx) == idx + 1

\* lines 64-79: an image block whose crop succeeds
ImageBlockCropped ==
    /\ pc = "block"
    /\ blockIdx <= Len(sortedBlocks)
    /\ block.type = IMAGE_PLACEHOLDER
    /\ \E imageBuffer \in cropImage(pages[pageIdx].imageUrl, block.box_2d) :
          /\ imageBuffer # Null
          /\ children' = Append(children, ImageParagraph(block, imageBuffer[1]))
    /\ blockIdx' = blockIdx + 1
    /\ UNCHANGED <<pages, exportAll, pc, pageIdx, blocksToExport, sortedBlocks,
                   sections, artifact, cropFailed>>
    /\ UNCHANGED appVars

\* lines 64-66, 80-82: an image block whose crop is rejected
ImageBlockCropFailed ==
    /\ pc = "block"
    /\ blockIdx <= Len(sortedBlocks)
    /\ block.type = IMAGE_PLACEHOLDER
    /\ Null \in cropImage(pages[pageIdx].imageUrl, block.box_2d)
    /\ cropFailed' = cropFailed \cup {block.id}
    /\ blockIdx' = cropRejectedNext(blockIdx)
    /\ UNCHANGED <<pages, exportAll, pc, pageIdx, blocksToExport, sortedBlocks,
                   children, sections, artifact>>
    /\ UNCHANGED appVars

\* the test of line 85
isTableBranch(b) == b.type = TABLE /\ Len(b.tableData) > 0

\* lines 85-126: a table block with cells
TableBlock ==
    /\ pc = "block"
    /\ blockIdx <= Len(sortedBlocks)
    /\ block.type # IMAGE_PLACEHOLDER
    /\ isTableBranch(block)
    /\ children' = children \o
          <<TableElement(block, tableRows(block.tableData)), SpacerParagraph(block)>>
    /\ blockIdx' = blockIdx + 1
    /\ UNCHANGED <<pages, exportAll, pc, pageIdx, blocksToExport, sortedBlocks,
                   sections, artifact, cropFailed>>
    /\ UNCHANGED appVars

\* lines 128-152: every other block
TextBlock ==
    /\ pc = "block"
    /\ blockIdx <= Len(sortedBlocks)
    /\ block.type # IMAGE_PLACEHOLDER
    /\ ~isTableBranch(block)
    /\ children' = children \o textParagraphs(block)
    /\ blockIdx' = blockIdx + 1
    /\ UNCHANGED <<pages, exportAll, pc, pageIdx, blocksToExport, sortedBlocks,
                   sections, artifact, cropFailed>>
    /\ UNCHANGED appVars

\* a slip that puts the new section in front
unshiftSection(secs, ch) == <<[children |-> ch]>> \o secs

\* sections.push({properties, children}), lines 155-162
pushSection(secs, ch) == Append(secs, [children |-> ch])

\* lines 155-162: the page's section is pushed
EndPage ==
    /\ pc = "block"
    /\ blockIdx > Len(sortedBlocks)
    /\ sections' = pushSection(sections, children)
    /\ pageIdx' = pageIdx + 1
    /\ pc' = "page"
    /\ UNCHANGED <<pages, exportAll, blocksToExport, sortedBlocks, blockIdx, children,
                   artifact, cropFailed>>
    /\ UNCHANGED appVars

\* lines 165-189: nothing is produced without a section; otherwise the document
\* is packed and offered for download
Finish ==
    /\ pc = "page"
    /\ pageIdx > Len(pages)
    /\ artifact' = (Len(sections) # 0)
    /\ pc' = "done"
    /\ UNCHANGED <<pages, exportAll, pageIdx, blocksToExport, sortedBlocks, blockIdx,
                   children, sections, cropFailed>>
    /\ UNCHANGED appVars

-----------------------------------------------------------------------------
(* The application before any user action: App.tsx lines 15-24 *)

AppInit ==
    /\ currentView = "home"
    /\ isLoading = FALSE
    /\ results = Null
    /\ activePageIndex = 0
    /\ error = Null
    /\ exportMode = "all"
    /\ cancelRef = FALSE
    /\ runs = <<>>
    /\ exports = <<>>
    /\ lastArea = Null
    /\ ocrCall = Null

\* generateDocx(ps, all) at its first statement
DocxCalled(ps, all) ==
    /\ pages = ps
    /\ exportAll = all
    /\ pc = "page"
    /\ pageIdx = 1
    /\ blocksToExport = <<>>
    /\ sortedBlocks = <<>>
    /\ blockIdx = 1
    /\ children = <<>>
    /\ sections = <<>>
    /\ artifact = FALSE
    /\ cropFailed = {}

\* no export under way
DocxIdle ==
    /\ pages = <<>>
    /\ exportAll = FALSE
    /\ pc = "idle"
    /\ pageIdx = 1
    /\ blocksToExport = <<>>
    /\ sortedBlocks = <<>>
    /\ blockIdx = 1
    /\ children = <<>>
    /\ sections = <<>>
    /\ artifact = FALSE
    /\ cropFailed = {}

-----------------------------------------------------------------------------
(* SpecTable: generateDocx at a table block of a one-page document, for     *)
(* every cell list within the bounds.                                       *)

CellTexts == {"", "A"}
TableCells == {TableCell(t, r, c) : t \in CellTexts, r \in 0..MaxIdx, c \in 0..MaxIdx}
TableDatas == SeqsUpTo(TableCells, MaxCells) \ {<<>>}

TableBlockOf(td) == OCRBlock(11, TABLE, <<>>, <<0, 0, 100, 1000>>, td, FALSE, TRUE)

InitTable ==
    /\ AppInit
    /\ \E td \in TableDatas :
          /\ pages = <<PageResult(1, "img", <<TableBlockOf(td)>>)>>
          /\ blocksToExport = <<TableBlockOf(td)>>
          /\ sortedBlocks = <<TableBlockOf(td)>>
    /\ exportAll = TRUE
    /\ pc = "block"
    /\ pageIdx = 1
    /\ blockIdx = 1
    /\ children = <<>>
    /\ sections = <<>>
    /\ artifact = FALSE
    /\ cropFailed = {}

NextTable == TableBlock

SpecTable == InitTable /\ [][NextTable]_vars

-----------------------------------------------------------------------------
(* SpecSort: generateDocx about to sort the eligible blocks of a page, for  *)
(* every block list within the bounds.                                      *)

SortYs == {0, 15, 30, 50}
SortXs == {0, 100, 500}
SortBoxes == {<<y, x, y + 10, x + 100>> : y \in SortYs, x \in SortXs}

\* the blocks of a page with the boxes bs, named by their place in the page
BlocksWithBoxes(bs) ==
    [i \in 1..Len(bs) |-> OCRBlock(10 + i, PARAGRAPH, <<"a">>, bs[i], <<>>, FALSE, TRUE)]

InitSort ==
    /\ AppInit
    /\ \E bs \in SeqsUpTo(SortBoxes, MaxSortLen) \ {<<>>} :
          /\ pages = <<PageResult(1, "img", BlocksWithBoxes(bs))>>
          /\ blocksToExport = BlocksWithBoxes(bs)
    /\ exportAll = TRUE
    /\ pc = "sort"
    /\ pageIdx = 1
    /\ sortedBlocks = <<>>
    /\ blockIdx = 1
    /\ children = <<>>
    /\ sections = <<>>
    /\ artifact = FALSE
    /\ cropFailed = {}

NextSort == SortBlocks

SpecSort == InitSort /\ [][NextSort]_vars


-----------------------------------------------------------------------------
(* SpecDocx: generateDocx from its first statement to its return, for every *)
(* document within the bounds and both export modes.                        *)

\* the kinds of block a page is made of: a two-line paragraph, a table with a
\* sparse cell list, a table without cells, and an image on the paragraph's
\* line, to its left
DocxTemplates ==
    { [type |-> PARAGRAPH, text |-> <<"a", "\n", "b">>, box_2d |-> <<100, 0, 150, 400>>,
       tableData |-> <<>>],
      [type |-> TABLE, text |-> <<"t">>, box_2d |-> <<0, 0, 50, 1000>>,
       tableData |-> <<TableCell("A", 0, 0), TableCell("B", 1, 1)>>],
      [type |-> TABLE, text |-> <<"t">>, box_2d |-> <<0, 0, 50, 1000>>,
       tableData |-> <<>>],
      [type |-> IMAGE_PLACEHOLDER, text |-> <<>>, box_2d |-> <<110, 0, 200, 300>>,
       tableData |-> <<>>] }

DocxBlockChoices == DocxTemplates \X BOOLEAN

\* the ways to cut total blocks into n pages: the block count of each page
RECURSIVE Sum(_)
Sum(v) == IF v = <<>> THEN 0 ELSE Head(v) + Sum(Tail(v))

PageLengths(n, total) == {v \in [1..n -> 0..total] : Sum(v) = total}

\* the blocks flat cut into pages of the lengths v
CutPages(flat, v) ==
    [p \in 1..Len(v) |->
        SubSeq(flat, Sum(SubSeq(v, 1, p - 1)) + 1, Sum(SubSeq(v, 1, p)))]

\* the documents: at most MaxPages pages holding at most MaxDocBlocks blocks
DocxShapes ==
    UNION {{CutPages(flat, v) : v \in PageLengths(n, Len(flat))} :
              flat \in SeqsUpTo(DocxBlockChoices, MaxDocBlocks), n \in 0..MaxPages}

\* the pages of a shape: page numbers 1..n as App.tsx assigns them, and each block
\* named by its page and place
PagesOf(shape) ==
    [p \in 1..Len(shape) |->
        PageResult(p, "img",
            [i \in 1..Len(shape[p]) |->
                OCRBlock(10 * p + i, shape[p][i][1].type, shape[p][i][1].text,
                         shape[p][i][1].box_2d, shape[p][i][1].tableData, FALSE,
                         shape[p][i][2])])]

InitDocx ==
    /\ AppInit
    /\ \E shape \in DocxShapes, all \in BOOLEAN : DocxCalled(PagesOf(shape), all)

NextDocx ==
    \/ StartPage
    \/ SortBlocks
    \/ ImageBlockCropped
    \/ ImageBlockCropFailed
    \/ TableBlock
    \/ TextBlock
    \/ EndPage
    \/ Finish

SpecDocx == InitDocx /\ [][NextDocx]_vars

-----------------------------------------------------------------------------
(* Claims about the Table Reconstructor (SpecTable) *)

\* the block of sortedBlocks an element was built from
SourceBlock(el) == CHOOSE b \in Range(sortedBlocks) : b.id = el.src

\* the texts of the listed cells at (r, c)
ListedTexts(td, r, c) == {td[i].text : i \in {k \in DOMAIN td : td[k].row = r /\ td[k].col = c}}

GridIsDense(td, grid) ==
    LET R == CHOOSE m \in {d.row : d \in Range(td)} : \A d \in Range(td) : d.row <= m
        C == CHOOSE m \in {d.col : d \in Range(td)} : \A d \in Range(td) : d.col <= m
    IN  /\ Len(grid) = R + 1
        /\ \A r \in 0..R :
              /\ Len(grid[r + 1]) = C + 1
              /\ \A c \in 0..C :
                    IF ListedTexts(td, r, c) # {}
                    THEN grid[r + 1][c + 1].text \in ListedTexts(td, r, c)
                    ELSE grid[r + 1][c + 1].text = ""

\* C1: the grid built for a non-empty cell list has exactly maxRow + 1 rows of
\* exactly maxCol + 1 cells each; position (r, c) carries the text of a listed
\* cell with that (row, col) if there is one, and the empty text otherwise.
C1_DenseGrid ==
    \A k \in DOMAIN children :
        children[k].kind = "table" =>
            GridIsDense(SourceBlock(children[k]).tableData, children[k].rows)

\* C1 witness: a table was emitted for a sparse cell list (a row without any cell
\* and a gap in a populated row) and carries a listed text
C1_Witness ==
    /\ Len(children) = 2
    /\ children[1].kind = "table"
    /\ LET td == sortedBlocks[1].tableData
       IN  /\ {d.row : d \in Range(td)} = {0, 2}
           /\ {d.col : d \in Range(td)} = {1}
           /\ \E d \in Range(td) : d.text = "A" /\ d.row = 2
    /\ Len(children[1].rows) = 3
    /\ children[1].rows[3][2].text = "A"
    /\ children[1].rows[2][1].text = ""

-----------------------------------------------------------------------------
(* Claims about the Block Orderer (SpecSort) *)

\* a before b agrees with the ordering rule of the two
InReadingOrder(a, b) ==
    IF Abs(a.box_2d[1] - b.box_2d[1]) < 20
    THEN a.box_2d[2] <= b.box_2d[2]
    ELSE a.box_2d[1] < b.box_2d[1]

PairwiseOrdered(s) == \A i, j \in DOMAIN s : i < j => InReadingOrder(s[i], s[j])

\* "on the same line" is transitive on the blocks of s
SameLineTransitive(s) ==
    \A a, b, c \in Range(s) :
        (Abs(a.box_2d[1] - b.box_2d[1]) < 20 /\ Abs(b.box_2d[1] - c.box_2d[1]) < 20)
            => Abs(a.box_2d[1] - c.box_2d[1]) < 20

-----------------------------------------------------------------------------
(* Claims about generateDocx as a whole (SpecDocx) *)

AllBlocks == UNION {Range(pages[p].blocks) : p \in DOMAIN pages}

BlockOfId(id) == CHOOSE b \in AllBlocks : b.id = id

\* every element built so far: those of the page under way and of the sections
AllElements == Range(children) \cup UNION {Range(sections[k].children) : k \in DOMAIN sections}

\* C2 as stated: a table block whose cell list is empty (or absent) contributes
\* no element at all to the output.
C2_EmptyTableEmitsNothing ==
    \A el \in AllElements :
        ~(BlockOfId(el.src).type = TABLE /\ BlockOfId(el.src).tableData = <<>>)

AllDeselected == \A b \in AllBlocks : ~b.isSelected

\* C5: an export in mode 'selected' over a document whose blocks are all
\* deselected produces no artifact.
C5_NothingSelectedNoArtifact == (~exportAll /\ AllDeselected) => ~artifact

\* C5 witness: such an export of two pages with a block each has returned
C5_Witness ==
    /\ pc = "done"
    /\ ~exportAll
    /\ AllDeselected
    /\ Len(pages) = 2
    /\ \A p \in DOMAIN pages : Len(pages[p].blocks) > 0
    /\ ~artifact

\* C6 as stated: an artifact is produced only if some page emitted at least one
\* element.
C6_ArtifactOnlyWithElements ==
    artifact => \E k \in DOMAIN sections : Len(sections[k].children) > 0

\* a sequence without its repetitions of the element before
RECURSIVE Dedup(_)
Dedup(s) ==
    IF Len(s) <= 1 THEN s
    ELSE IF s[Len(s)] = s[Len(s) - 1] THEN Dedup(SubSeq(s, 1, Len(s) - 1))
         ELSE Append(Dedup(SubSeq(s, 1, Len(s) - 1)), s[Len(s)])

\* the blocks whose elements els are, in the order of their first element
ElementSources(els) == Dedup([k \in DOMAIN els |-> els[k].src])

EligibleOf(p) == SelectSeq(p.blocks, LAMBDA b : exportAll \/ b.isSelected)

SurvivorsOf(p) == SelectSeq(EligibleOf(p), LAMBDA b : b.id \notin cropFailed)

ContributingPages == SelectSeq(pages, LAMBDA p : EligibleOf(p) # <<>>)

NonImageOf(p) == SelectSeq(EligibleOf(p), LAMBDA b : b.type # IMAGE_PLACEHOLDER)

\* C10: when the crop of an image block fails only that block is skipped: the
\* export goes on to its end, and the output holds, page after page, the elements
\* of every other eligible block, block after block in reading order.
C10_CropFailureIsolated ==
    cropFailed # {} =>
        /\ pc # "done" => ENABLED NextDocx
        /\ pc = "done" =>
              /\ artifact
              /\ Len(sections) = Len(ContributingPages)
              /\ \A k \in DOMAIN sections :
                    \E ord \in PermutationsOf(SurvivorsOf(ContributingPages[k])) :
                        /\ PairwiseOrdered(ord)
                        /\ ElementSources(sections[k].children)
                              = [i \in DOMAIN ord |-> ord[i].id]

\* C10 witness: the crop of the first block in reading order failed and the
\* block behind it on the same page was emitted all the same
C10_Witness ==
    /\ pc = "done"
    /\ cropFailed = {11}
    /\ sortedBlocks[1].id = 11
    /\ Len(sections) = 1
    /\ ElementSources(sections[1].children) = <<12>>
    /\ artifact


-----------------------------------------------------------------------------
(* src/App.tsx: processFiles (lines 31-104).  A call runs without            *)
(* interruption from one await to the next; a step below is the settling of  *)
(* the awaited promise together with the code up to the next await.          *)
(* file.arrayBuffer and getDocument are awaited one after the other with no  *)
(* state read or written in between and are one step ("openPdf"); so are     *)
(* getPage, render and performOCR of a PDF page, and the performOCR of an    *)
(* image ("ocr").                                                            *)

FileTypes == {"pdf", "image", "other"}

ErrorMessage == "Rapid Extraction Failed. Please check network/API key."

\* what performOCR resolves to: the blocks of a page, as returned by lines 69-73
OcrResults == {<<OCRBlock("b1", PARAGRAPH, <<"a">>, <<0, 0, 500, 500>>, <<>>, FALSE, TRUE)>>}

\* a processFiles call at its first statement.  cancelled, resumed and outcome
\* are history: the user cancelled while the call was running, the call started
\* a page or file after that, and how the call ended.
NewRun(id, files) ==
    [id |-> id, files |-> files, pc |-> "file", fileIdx |-> 1, numPages |-> 0, i |-> 1,
     allPages |-> <<>>, cancelled |-> FALSE, resumed |-> FALSE, outcome |-> "running"]

\* line 42-45, 71: the head of the file loop; the run stops at the await of the
\* next PDF or image, or leaves the loop ("after")
RECURSIVE advanceFiles(_, _)
advanceFiles(rn, cancel) ==
    IF rn.fileIdx > Len(rn.files) \/ cancel THEN [rn EXCEPT !.pc = "after"]
    ELSE IF rn.files[rn.fileIdx] = "pdf" THEN [rn EXCEPT !.pc = "openPdf"]
    ELSE IF rn.files[rn.fileIdx] = "image" THEN [rn EXCEPT !.pc = "readImage"]
    ELSE advanceFiles([rn EXCEPT !.fileIdx = @ + 1], cancel)

\* lines 49-50: the head of the page loop
advancePages(rn, cancel) ==
    IF rn.i <= rn.numPages /\ ~cancel THEN [rn EXCEPT !.pc = "ocr"]
    ELSE advanceFiles([rn EXCEPT !.fileIdx = @ + 1], cancel)

\* a slip that numbers a PDF's pages by the loop index
pushPageLoopIndex(rn, blocks) ==
    [rn EXCEPT !.allPages = Append(@,
        PageResult(IF rn.files[rn.fileIdx] = "pdf" THEN rn.i ELSE Len(rn.allPages) + 1,
                   <<rn.id, rn.fileIdx, rn.i>>, blocks))]

\* allPages.push({pageNumber: allPages.length + 1, ...}), lines 63-69 and 80-86;
\* the image data is named by the run, file and page it was taken from
pushPage(rn, blocks) ==
    [rn EXCEPT !.allPages = Append(@,
        PageResult(Len(rn.allPages) + 1, <<rn.id, rn.fileIdx, rn.i>>, blocks))]

\* a catch that leaves the loading flag set
processFilesCatchKeepsLoading(base) ==
    [base EXCEPT !.error = <<ErrorMessage>>, !.currentView = "home"]

\* lines 96-102: the catch and finally blocks
processFilesCatch(base) ==
    [base EXCEPT !.error = <<ErrorMessage>>, !.currentView = "home", !.isLoading = FALSE]

\* lines 90-103: what follows the loops.  files[0].name throws for an empty
\* file list, which the catch handles.
afterLoops(rn, cancel, base) ==
    IF ~cancel
    THEN IF Len(rn.files) = 0
         THEN [app |-> processFilesCatch(base), outcome |-> "failed"]
         ELSE [app |-> [base EXCEPT
                           !.results = <<[fileName |-> <<rn.id, 1>>, pages |-> rn.allPages]>>,
                           !.currentView = "workspace",
                           !.isLoading = FALSE],
               outcome |-> "published"]
    ELSE [app |-> [base EXCEPT !.currentView = "home", !.isLoading = FALSE],
          outcome |-> "cancelled"]

\* the state the handlers of a run read and write
AppOf == [isLoading |-> isLoading, results |-> results, currentView |-> currentView,
          error |-> error]

SetApp(app) ==
    /\ isLoading' = app.isLoading
    /\ results' = app.results
    /\ currentView' = app.currentView
    /\ error' = app.error

SetRun(rn) ==
    runs' = IF rn.id > Len(runs) THEN Append(runs, rn) ELSE [runs EXCEPT ![rn.id] = rn]

\* the run rn, standing at the head of a loop, goes on to its next await or to
\* its end, with cancelRef.current = cancel and the state base
Resume(rn, cancel, base) ==
    LET nx == IF rn.pc = "page" THEN advancePages(rn, cancel) ELSE advanceFiles(rn, cancel)
    IN  IF nx.pc # "after"
        THEN /\ SetRun([nx EXCEPT !.resumed = @ \/ nx.cancelled])
             /\ SetApp(base)
        ELSE /\ SetRun([nx EXCEPT !.pc = "done",
                                  !.outcome = afterLoops(nx, cancel, base).outcome])
             /\ SetApp(afterLoops(nx, cancel, base).app)

\* an entry that leaves the document in place
entryStateKeepsResults ==
    [isLoading |-> TRUE, results |-> results, currentView |-> "processing", error |-> Null]

\* lines 32-36: the state set at the entry of processFiles
entryState ==
    [isLoading |-> TRUE, results |-> Null, currentView |-> "processing", error |-> Null]

\* FileUpload.handleDrop / handleInputChange (guarded by isLoading, shown on the
\* home view) calling processFiles, lines 31-45
processFiles(files) ==
    /\ currentView = "home"
    /\ ~isLoading
    /\ Len(runs) < MaxRuns
    /\ cancelRef' = FALSE
    /\ Resume(NewRun(Len(runs) + 1, files), FALSE, entryState)
    /\ UNCHANGED <<activePageIndex, exportMode, exports, lastArea>>
    /\ UNCHANGED <<docxVars, ocrCall>>

\* lines 46-49: the PDF is read and opened and has n pages
OpenPdfResolves(r, n) ==
    /\ runs[r].pc = "openPdf"
    /\ Resume([runs[r] EXCEPT !.numPages = n, !.i = 1, !.pc = "page"], cancelRef, AppOf)
    /\ UNCHANGED <<activePageIndex, exportMode, cancelRef, exports, lastArea>>
    /\ UNCHANGED <<docxVars, ocrCall>>

\* lines 46-47, 96-102: reading or opening the PDF fails
OpenPdfRejects(r) ==
    /\ runs[r].pc = "openPdf"
    /\ SetRun([runs[r] EXCEPT !.pc = "done", !.outcome = "failed"])
    /\ SetApp(processFilesCatch(AppOf))
    /\ UNCHANGED <<activePageIndex, exportMode, cancelRef, exports, lastArea>>
    /\ UNCHANGED <<docxVars, ocrCall>>

\* lines 73-77: the FileReader promise resolves with the image data
ReadImageResolves(r) ==
    /\ runs[r].pc = "readImage"
    /\ SetRun([runs[r] EXCEPT !.pc = "ocr"])
    /\ UNCHANGED <<currentView, isLoading, results, error>>
    /\ UNCHANGED <<activePageIndex, exportMode, cancelRef, exports, lastArea>>
    /\ UNCHANGED <<docxVars, ocrCall>>

\* lines 73-77: the read of the file fails; the reader fires its error event,
\* for which the promise has no handler (only onload is set), so the promise
\* never settles and the run stays at its await
ReadImageFails(r) ==
    /\ runs[r].pc = "readImage"
    /\ SetRun([runs[r] EXCEPT !.pc = "readFailed"])
    /\ UNCHANGED <<currentView, isLoading, results, error>>
    /\ UNCHANGED <<activePageIndex, exportMode, cancelRef, exports, lastArea>>
    /\ UNCHANGED <<docxVars, ocrCall>>

\* lines 52-70 and 79-87: performOCR resolves with blocks, the page is pushed
\* and the loop goes on
OcrResolves(r, blocks) ==
    /\ runs[r].pc = "ocr"
    /\ IF runs[r].files[runs[r].fileIdx] = "pdf"
       THEN Resume([pushPage(runs[r], blocks) EXCEPT !.i = @ + 1, !.pc = "page"],
                   cancelRef, AppOf)
       ELSE Resume([pushPage(runs[r], blocks) EXCEPT !.fileIdx = @ + 1, !.pc = "file"],
                   cancelRef, AppOf)
    /\ UNCHANGED <<activePageIndex, exportMode, cancelRef, exports, lastArea>>
    /\ UNCHANGED <<docxVars, ocrCall>>

\* lines 62, 79 and 96-102, geminiService.ts lines 74-77: the OCR call of a run
\* fails (a service error or a response JSON.parse rejects)
OcrRejects(r) ==
    /\ runs[r].pc = "ocr"
    /\ SetRun([runs[r] EXCEPT !.pc = "done", !.outcome = "ocr failed"])
    /\ SetApp(processFilesCatch(AppOf))
    /\ UNCHANGED <<activePageIndex, exportMode, cancelRef, exports, lastArea>>
    /\ UNCHANGED <<docxVars, ocrCall>>

\* lines 106-111, the button of the processing screen (line 306)
handleCancel ==
    /\ currentView = "processing"
    /\ cancelRef' = TRUE
    /\ currentView' = "home"
    /\ isLoading' = FALSE
    /\ runs' = [r \in DOMAIN runs |->
                   IF runs[r].pc # "done" THEN [runs[r] EXCEPT !.cancelled = TRUE]
                   ELSE runs[r]]
    /\ UNCHANGED <<results, activePageIndex, error, exportMode, exports, lastArea>>
    /\ UNCHANGED <<docxVars, ocrCall>>


-----------------------------------------------------------------------------
(* src/App.tsx: navigation, export and the document's controls *)

\* the views the Header and Footer buttons lead to (lines 177, 189-192, 253-262);
\* "about" stands for the four information pages, which no handler tells apart
NavTargets == {"home", "about"}

\* onClick={() => setCurrentView(v)}; the Header is shown on every view
Navigate(v) ==
    /\ currentView' = v
    /\ UNCHANGED <<isLoading, results, activePageIndex, error, exportMode, cancelRef,
                   runs, exports, lastArea>>
    /\ UNCHANGED <<docxVars, ocrCall>>

\* the controls of lines 196-223 and the workspace of line 535 are rendered
WorkspaceShown == results # Null /\ currentView = "workspace"

\* line 218: the document is discarded
DiscardDocument ==
    /\ WorkspaceShown
    /\ results' = Null
    /\ currentView' = "home"
    /\ UNCHANGED <<isLoading, activePageIndex, error, exportMode, cancelRef, runs, exports, lastArea>>
    /\ UNCHANGED <<docxVars, ocrCall>>

\* lines 200 and 206
setExportMode(mode) ==
    /\ WorkspaceShown
    /\ exportMode' = mode
    /\ UNCHANGED <<currentView, isLoading, results, activePageIndex, error, cancelRef,
                   runs, exports, lastArea>>
    /\ UNCHANGED <<docxVars, ocrCall>>

\* lines 538-541: a page thumbnail is clicked
setActivePageIndex(idx) ==
    /\ WorkspaceShown
    /\ idx \in 0..(Len(results[1].pages) - 1)
    /\ activePageIndex' = idx
    /\ lastArea' = Null
    /\ UNCHANGED <<currentView, isLoading, results, error, exportMode, cancelRef, runs,
                   exports>>
    /\ UNCHANGED <<docxVars, ocrCall>>

\* lines 158-164: handleExport up to its await of generateDocx(results.pages,
\* exportMode === 'all')
handleExportCalls ==
    /\ WorkspaceShown
    /\ Len(exports) < MaxPendingExports
    /\ isLoading' = TRUE
    /\ currentView' = "processing"
    /\ exports' = Append(exports, [oldView |-> currentView, pages |-> results[1].pages,
                                   exportAll |-> (exportMode = "all")])
    /\ UNCHANGED <<results, activePageIndex, error, exportMode, cancelRef, runs, lastArea>>

\* the same, the steps of generateDocx left out
handleExport ==
    /\ handleExportCalls
    /\ UNCHANGED <<docxVars, ocrCall>>

\* lines 165-167: generateDocx has returned
generateDocxReturns ==
    /\ exports # <<>>
    /\ isLoading' = FALSE
    /\ currentView' = Head(exports).oldView
    /\ exports' = Tail(exports)
    /\ UNCHANGED <<results, activePageIndex, error, exportMode, cancelRef, runs, lastArea>>
    /\ UNCHANGED <<docxVars, ocrCall>>

-----------------------------------------------------------------------------
(* src/App.tsx: the Selection State Manager (lines 113-156) *)

\* results?.pages[activePageIndex], line 170
activePageDefined == results # Null /\ activePageIndex < Len(results[1].pages)

activePage == results[1].pages[activePageIndex + 1]

\* a slip that writes the new blocks to the first page
withFirstPageBlocks(blocks) ==
    <<[results[1] EXCEPT !.pages[1].blocks = blocks]>>

\* prev with the blocks of the active page replaced
withActiveBlocks(blocks) ==
    <<[results[1] EXCEPT !.pages[activePageIndex + 1].blocks = blocks]>>

\* page.blocks.findIndex(b => b.id === blockId), line 119: the place of the first
\* block of that id, 0 when there is none
findIndex(blocks, blockId) ==
    IF \E k \in DOMAIN blocks : blocks[k].id = blockId
    THEN CHOOSE k \in DOMAIN blocks :
            /\ blocks[k].id = blockId
            /\ \A j \in DOMAIN blocks : blocks[j].id = blockId => k <= j
    ELSE 0

\* a toggle that clears the flag instead of flipping it
toggleBlocksClears(blocks, blockId) ==
    LET blockIndex == findIndex(blocks, blockId)
    IN  IF blockIndex # 0 THEN [blocks EXCEPT ![blockIndex].isSelected = FALSE] ELSE blocks

\* lines 119-126: the blocks of the page after the toggle of blockId
toggleBlocks(blocks, blockId) ==
    LET blockIndex == findIndex(blocks, blockId)
    IN  IF blockIndex # 0 THEN [blocks EXCEPT ![blockIndex].isSelected = ~@] ELSE blocks

\* lines 113-129; the overlay and the preview list offer the blocks of the
\* active page (lines 550-560, 588-594)
toggleBlockSelection(blockId) ==
    /\ WorkspaceShown
    /\ activePageDefined
    /\ results' = withActiveBlocks(toggleBlocks(activePage.blocks, blockId))
    /\ lastArea' = Null
    /\ UNCHANGED <<currentView, isLoading, activePageIndex, error, exportMode, cancelRef,
                   runs, exports>>
    /\ UNCHANGED <<docxVars, ocrCall>>

\* a containment test with the borders left out
isInsideStrict(b, box) ==
    /\ b.box_2d[2] > box.xmin
    /\ b.box_2d[4] < box.xmax
    /\ b.box_2d[1] > box.ymin
    /\ b.box_2d[3] < box.ymax

\* lines 137-138
isInside(b, box) ==
    /\ b.box_2d[2] >= box.xmin
    /\ b.box_2d[4] <= box.xmax
    /\ b.box_2d[1] >= box.ymin
    /\ b.box_2d[3] <= box.ymax

\* lines 135-140: page.blocks.map(...)
selectInside(blocks, box) ==
    [k \in DOMAIN blocks |->
        IF isInside(blocks[k], box) THEN [blocks[k] EXCEPT !.isSelected = TRUE]
        ELSE blocks[k]]

\* lines 131-145
handleAreaSelection(box) ==
    /\ results' = withActiveBlocks(selectInside(activePage.blocks, box))
    /\ lastArea' = <<[box |-> box, before |-> activePage.blocks]>>
    /\ UNCHANGED <<currentView, isLoading, activePageIndex, error, exportMode, cancelRef,
                   runs, exports>>
    /\ UNCHANGED <<docxVars, ocrCall>>

Min(a, b) == IF a < b THEN a ELSE b
Max(a, b) == IF a > b THEN a ELSE b

DragThreshold == 5

\* the rectangle between the two corners of a drag, LensOverlay lines 336-339
dragBox(dragStart, dragCurrent) ==
    [xmin |-> Min(dragStart.x, dragCurrent.x), ymin |-> Min(dragStart.y, dragCurrent.y),
     xmax |-> Max(dragStart.x, dragCurrent.x), ymax |-> Max(dragStart.y, dragCurrent.y)]

\* line 342: a drag this small is taken for a click
isAreaDrag(box) == box.xmax - box.xmin > DragThreshold \/ box.ymax - box.ymin > DragThreshold

\* LensOverlay.handleMouseUp, lines 334-349, at the end of a drag from dragStart
\* to dragCurrent (set by handleMouseDown and handleMouseMove); the overlay is
\* rendered for a defined active page only (App.tsx lines 550-560)
handleMouseUp(dragStart, dragCurrent) ==
    /\ WorkspaceShown
    /\ activePageDefined
    /\ isAreaDrag(dragBox(dragStart, dragCurrent))
    /\ handleAreaSelection(dragBox(dragStart, dragCurrent))

\* a slip that passes over the first block
selectAllButFirst(blocks, selected) ==
    [k \in DOMAIN blocks |->
        IF k = 1 THEN blocks[k] ELSE [blocks[k] EXCEPT !.isSelected = selected]]

\* line 152: page.blocks.map(b => ({ ...b, isSelected: selected }))
selectAll(blocks, selected) ==
    [k \in DOMAIN blocks |-> [blocks[k] EXCEPT !.isSelected = selected]]

\* lines 147-156, the buttons of lines 574-575
setAllSelection(selected) ==
    /\ WorkspaceShown
    /\ activePageDefined
    /\ results' = withActiveBlocks(selectAll(activePage.blocks, selected))
    /\ lastArea' = Null
    /\ UNCHANGED <<currentView, isLoading, activePageIndex, error, exportMode, cancelRef,
                   runs, exports>>
    /\ UNCHANGED <<docxVars, ocrCall>>

-----------------------------------------------------------------------------
(* Spec: the application from its start, under every interleaving of user    *)
(* actions and settling promises.  The selection handlers and setExportMode  *)
(* read and write nothing but isSelected flags and exportMode, which no      *)
(* action below reads; they are explored from a loaded document in           *)
(* SpecSelect.                                                               *)

Init == AppInit /\ DocxIdle

Next ==
    \/ \E files \in SeqsUpTo(FileTypes, MaxFiles) : processFiles(files)
    \/ \E r \in DOMAIN runs, n \in 1..MaxPdfPages : OpenPdfResolves(r, n)
    \/ \E r \in DOMAIN runs : OpenPdfRejects(r)
    \/ \E r \in DOMAIN runs : ReadImageResolves(r)
    \/ \E r \in DOMAIN runs : ReadImageFails(r)
    \/ \E r \in DOMAIN runs, blocks \in OcrResults : OcrResolves(r, blocks)
    \/ \E r \in DOMAIN runs : OcrRejects(r)
    \/ handleCancel
    \/ \E v \in NavTargets : Navigate(v)
    \/ DiscardDocument
    \/ \E idx \in 0..(MaxFiles * MaxPdfPages) : setActivePageIndex(idx)
    \/ handleExport
    \/ generateDocxReturns

Spec == Init /\ [][Next]_vars

-----------------------------------------------------------------------------
(* SpecSelect: the workspace of a document just published by a run over      *)
(* image files, under the selection handlers, the thumbnails and the export  *)
(* mode buttons.                                                             *)

BoxA == <<0, 0, 500, 500>>
BoxB == <<600, 600, 1000, 1000>>

\* blocks as performOCR returns them (geminiService.ts lines 67-73): selected,
\* with the id of the response, which may repeat on a page
SelBlocks ==
    { OCRBlock(t[1], PARAGRAPH, <<"a">>, t[2], <<>>, FALSE, TRUE) :
        t \in {<<"b1", BoxA>>, <<"b2", BoxB>>, <<"b1", BoxB>>} }

\* the pages a run gathers from the block lists bl of its image files
RECURSIVE gatherPages(_, _)
gatherPages(rn, bl) ==
    IF bl = <<>> THEN rn
    ELSE gatherPages([pushPage(rn, Head(bl)) EXCEPT !.fileIdx = @ + 1], Tail(bl))

SelBlockLists ==
    { bl \in SeqsUpTo(SeqsUpTo(SelBlocks, MaxSelBlocks), MaxSelPages) : bl # <<>> }

\* the ids toggleBlockSelection is called with
SelIds == {"b1", "b2"}

\* the corners of the drags
SelPoints == { [x |-> c, y |-> c] : c \in {0, 4, 500, 600, 1000} }

InitSelect ==
    /\ \E bl \in SelBlockLists :
          LET rn == gatherPages(NewRun(1, [k \in DOMAIN bl |-> "image"]), bl)
              nx == advanceFiles(rn, FALSE)
              app == afterLoops(nx, FALSE,
                         [isLoading |-> TRUE, results |-> Null,
                          currentView |-> "processing", error |-> Null])
          IN  /\ runs = <<[nx EXCEPT !.pc = "done", !.outcome = app.outcome]>>
              /\ isLoading = app.app.isLoading
              /\ results = app.app.results
              /\ currentView = app.app.currentView
              /\ error = app.app.error
    /\ activePageIndex = 0
    /\ exportMode = "all"
    /\ cancelRef = FALSE
    /\ exports = <<>>
    /\ lastArea = Null
    /\ ocrCall = Null
    /\ DocxIdle

NextSelect ==
    \/ \E blockId \in SelIds : toggleBlockSelection(blockId)
    \/ \E dragStart \in SelPoints, dragCurrent \in SelPoints :
          handleMouseUp(dragStart, dragCurrent)
    \/ \E selected \in BOOLEAN : setAllSelection(selected)
    \/ \E idx \in 0..(MaxSelPages - 1) : setActivePageIndex(idx)
    \/ \E mode \in {"selected", "all"} : setExportMode(mode)

SpecSelect == InitSelect /\ [][NextSelect]_vars

-----------------------------------------------------------------------------
(* Claims on the Selection State Manager, checked under SpecSelect *)

\* the whole box of block b lies inside the rectangle, borders included
Contained(b, rect) ==
    /\ rect.ymin <= b.box_2d[1]
    /\ rect.xmin <= b.box_2d[2]
    /\ b.box_2d[3] <= rect.ymax
    /\ b.box_2d[4] <= rect.xmax

-----------------------------------------------------------------------------
(* Claims on processFiles and handleCancel, checked under Spec *)

\* C7: in every published document the page at position i (from 1) carries
\* page number i, whatever the mix of PDF and image files.
C7_PageNumbersContiguous ==
    results # Null =>
        \A i \in DOMAIN results[1].pages : results[1].pages[i].pageNumber = i

\* C7 witness: a run over a two-page PDF and an image has published its three
\* pages
C7_Witness ==
    /\ results # Null
    /\ Len(results[1].pages) = 3
    /\ \E r \in DOMAIN runs :
          /\ runs[r].outcome = "published"
          /\ runs[r].files = <<"pdf", "image">>
          /\ results[1].fileName[1] = r

\* C8 as stated: a run the user cancelled publishes no document and starts no
\* further page or file once the request in flight has completed.
C8_CancelledRunStops ==
    \A r \in DOMAIN runs :
        runs[r].cancelled => (~runs[r].resumed /\ runs[r].outcome # "published")

\* C9: the step in which an OCR call of a run fails sets the failure message,
\* clears the loading flag, shows the home view, publishes nothing and ends the
\* run, which never moves again.
C9_OcrFailureAborts ==
    [][\A r \in DOMAIN runs :
          /\ (runs[r].pc = "ocr" /\ runs'[r].outcome = "ocr failed") =>
                /\ error' = <<ErrorMessage>>
                /\ isLoading' = FALSE
                /\ currentView' = "home"
                /\ results' = results
                /\ (results' # Null => results'[1].fileName[1] # r)
                /\ runs'[r].pc = "done"
          /\ runs[r].outcome = "ocr failed" => runs'[r] = runs[r]]_vars

\* C9 witness: the OCR of the second page of a run failed; the page recognised
\* before is not published
C9_Witness ==
    /\ Len(runs) = 1
    /\ runs[1].outcome = "ocr failed"
    /\ Len(runs[1].allPages) = 1
    /\ results = Null
    /\ error = <<ErrorMessage>>
    /\ ~isLoading

-----------------------------------------------------------------------------
(* Further claims on the Selection State Manager, checked under SpecSelect *)

\* the blocks of the active page after the step
activeBlocksAfter == results'[1].pages[activePageIndex + 1].blocks

\* the step leaves everything but the blocks of the active page as it was
OnlyActiveBlocksChange == results' = withActiveBlocks(activeBlocksAfter)

\* C11: a toggle of an id carried by a block of the active page flips
\* isSelected of one block carrying that id and changes nothing else, a second
\* toggle of the same id right after gives back the blocks as they were, and a
\* toggle of an id no block of the active page carries changes nothing.
C11_ToggleFlipsOneAndUndoes ==
    [][\A blockId \in SelIds :
          toggleBlockSelection(blockId) =>
              /\ OnlyActiveBlocksChange
              /\ IF \E k \in DOMAIN activePage.blocks : activePage.blocks[k].id = blockId
                 THEN /\ \E k \in DOMAIN activePage.blocks :
                            /\ activePage.blocks[k].id = blockId
                            /\ activeBlocksAfter
                                  = [activePage.blocks EXCEPT ![k].isSelected = ~@]
                      /\ toggleBlocks(activeBlocksAfter, blockId) = activePage.blocks
                 ELSE results' = results]_vars

\* C11 witness: one block of a page of two is cleared and the other is not,
\* which only a toggle brings about (setAllSelection makes the flags equal and
\* an area selection clears none)
C11_Witness ==
    /\ activePageDefined
    /\ Len(activePage.blocks) = 2
    /\ ~activePage.blocks[1].isSelected
    /\ activePage.blocks[2].isSelected
    /\ activePage.blocks[2].id # activePage.blocks[1].id
    /\ lastArea = Null

-----------------------------------------------------------------------------
(* src/services/geminiService.ts: performOCR (lines 20-78), from the parsed  *)
(* response on.  SpecIngest: a run over one image file stands at its         *)
(* performOCR call; the call returns and the run goes on with the blocks.    *)

MaxResponse == 2

\* the ids the service sends; the schema does not require the field (line 63)
\* and does not exclude the empty string
ServiceIds == {"", "b1", "b2"}

\* Math.random().toString(36).substr(2, 9), line 71: digits of the fraction in
\* base 36, none when Math.random() gives 0 ("0".substr(2, 9))
RandomIds == {"", "r1", "r2"}

\* an element of JSON.parse(text), line 68; id and isSelected are Null when the
\* field is absent
RawBlocks ==
    [id : {Null} \cup {<<i>> : i \in ServiceIds},
     isSelected : {Null, <<TRUE>>, <<FALSE>>},
     type : {PARAGRAPH}, text : {<<"a">>}, box_2d : {BoxA}]

\* b.id as a condition: absent and "" are falsy
truthyId(b) == b.id # Null /\ b.id[1] # ""

\* lines 69-73: {...b, id: b.id || <random>, isSelected: true}
ingestBlock(b, random) ==
    OCRBlock(IF truthyId(b) THEN b.id[1] ELSE random, b.type, b.text, b.box_2d, <<>>, FALSE,
             TRUE)

\* lines 67-73: blocks.map(...), with random[k] the draw made for element k
performOCR(response, random) ==
    [k \in DOMAIN response |-> ingestBlock(response[k], random[k])]

OcrCalls ==
    { [response |-> rs, random |-> rd, returned |-> Null] :
        rs \in SeqsUpTo(RawBlocks, MaxResponse),
        rd \in [1..MaxResponse -> RandomIds] }

\* lines 67-73: the call returns
performOCRReturns ==
    /\ ocrCall # Null
    /\ ocrCall[1].returned = Null
    /\ ocrCall' = <<[ocrCall[1] EXCEPT
                       !.returned = <<performOCR(ocrCall[1].response, ocrCall[1].random)>>]>>
    /\ UNCHANGED <<currentView, isLoading, results, activePageIndex, error, exportMode,
                   cancelRef, runs, exports, lastArea>>
    /\ UNCHANGED docxVars

\* App.tsx line 79: the await of the call gives the blocks it returned
OcrCallResolves(r) ==
    /\ ocrCall # Null
    /\ ocrCall[1].returned # Null
    /\ OcrResolves(r, ocrCall[1].returned[1])

InitIngest ==
    /\ ocrCall \in {<<c>> : c \in OcrCalls}
    /\ runs = <<[advanceFiles(NewRun(1, <<"image">>), FALSE) EXCEPT !.pc = "ocr"]>>
    /\ isLoading = TRUE
    /\ results = Null
    /\ currentView = "processing"
    /\ error = Null
    /\ activePageIndex = 0
    /\ exportMode = "all"
    /\ cancelRef = FALSE
    /\ exports = <<>>
    /\ lastArea = Null
    /\ DocxIdle

NextIngest ==
    \/ performOCRReturns
    \/ \E r \in DOMAIN runs : OcrCallResolves(r)

SpecIngest == InitIngest /\ [][NextIngest]_vars

-----------------------------------------------------------------------------
(* Claims on ingestion, checked under SpecIngest *)

\* C12 as stated: every block performOCR returns is selected, whatever the
\* service sent for the flag, and has a non-empty id: the id the service sent,
\* or a generated one when the service sent none.
C12_IngestedSelectedWithId ==
    (ocrCall # Null /\ ocrCall[1].returned # Null) =>
        LET response == ocrCall[1].response
            blocks == ocrCall[1].returned[1]
        IN  /\ Len(blocks) = Len(response)
            /\ \A k \in DOMAIN blocks :
                  /\ blocks[k].isSelected = TRUE
                  /\ blocks[k].id # ""
                  /\ truthyId(response[k]) => blocks[k].id = response[k].id[1]
                  /\ response[k].id = Null => blocks[k].id = ocrCall[1].random[k]

-----------------------------------------------------------------------------
(* SpecExport: the workspace of a document just published, under toggles and *)
(* the export mode buttons, with handleExport and the generateDocx call it   *)
(* awaits taken step by step.                                                *)

\* App.tsx lines 158-164 and docxService.ts lines 43-45: handleExport calls
\* generateDocx(results.pages, exportMode === 'all')
ExportCalls ==
    /\ handleExportCalls
    /\ pages' = results[1].pages
    /\ exportAll' = (exportMode = "all")
    /\ pc' = "page"
    /\ pageIdx' = 1
    /\ blocksToExport' = <<>>
    /\ sortedBlocks' = <<>>
    /\ blockIdx' = 1
    /\ children' = <<>>
    /\ sections' = <<>>
    /\ artifact' = FALSE
    /\ cropFailed' = {}
    /\ UNCHANGED ocrCall

\* App.tsx lines 164-167: the awaited generateDocx call has returned
ExportReturns ==
    /\ pc = "done"
    /\ generateDocxReturns

NextExport ==
    \/ \E blockId \in SelIds : toggleBlockSelection(blockId)
    \/ \E mode \in {"selected", "all"} : setExportMode(mode)
    \/ \E idx \in 0..(MaxSelPages - 1) : setActivePageIndex(idx)
    \/ ExportCalls
    \/ StartPage
    \/ SortBlocks
    \/ TextBlock
    \/ EndPage
    \/ Finish
    \/ ExportReturns

SpecExport == InitSelect /\ [][NextExport]_vars

-----------------------------------------------------------------------------
(* Claims on the export of the document shown, checked under SpecExport *)

\* C13: while generateDocx works on a page, the blocks it exports are, in export
\* mode 'all', all blocks of that page of the document whatever their
\* isSelected, and in mode 'selected' exactly the blocks whose isSelected is
\* true.
C13_EligibleByMode ==
    pc \in {"sort", "block"} =>
        /\ results # Null
        /\ pageIdx \in DOMAIN results[1].pages
        /\ LET blocks == results[1].pages[pageIdx].blocks
           IN  IF exportMode = "all"
               THEN blocksToExport = blocks
               ELSE /\ \A k \in DOMAIN blocksToExport : blocksToExport[k].isSelected
                    /\ blocksToExport = SelectSeq(blocks, LAMBDA b : b.isSelected)

\* C13 witness: in mode 'all' a page with a cleared block is exported whole
C13_Witness ==
    /\ pc = "sort"
    /\ exportMode = "all"
    /\ Len(blocksToExport) = 2
    /\ ~blocksToExport[1].isSelected
    /\ blocksToExport[2].isSelected

-----------------------------------------------------------------------------
(* Further claims on generateDocx, checked under SpecDocx *)

\* the pages generateDocx has gone past
PagesDone == IF pc = "done" THEN Len(pages) ELSE IF pc = "idle" THEN 0 ELSE pageIdx - 1

\* the sections are those of the pages with eligible blocks
PagesWithoutEligibleSkipped ==
    Len(sections) = Len(SelectSeq(SubSeq(pages, 1, PagesDone),
                                  LAMBDA p : EligibleOf(p) # <<>>))

\* C14 as stated: a page without eligible blocks is passed over, and no section
\* of the output is without elements: a page has a section only if it emitted
\* an element.
C14_NoEmptySection ==
    /\ PagesWithoutEligibleSkipped
    /\ \A k \in DOMAIN sections : Len(sections[k].children) > 0

-----------------------------------------------------------------------------
(* Further claims on the Block Orderer, checked under SpecSort *)

\* the comparator has no preference between a and b: their ymin differ by less
\* than 20 and their xmin are equal
Tied(a, b) == Abs(a.box_2d[1] - b.box_2d[1]) < 20 /\ a.box_2d[2] = b.box_2d[2]

\* the place in s of the block with that id
PlaceOf(s, id) == CHOOSE k \in DOMAIN s : s[k].id = id

\* C16 as stated: two tied blocks stand in the output in the order they had in
\* the input list, for every input list.
C16_TiesKeepInputOrder ==
    pc = "block" =>
        \A i, j \in DOMAIN blocksToExport :
            (i < j /\ Tied(blocksToExport[i], blocksToExport[j])) =>
                PlaceOf(sortedBlocks, blocksToExport[i].id)
                    < PlaceOf(sortedBlocks, blocksToExport[j].id)

-----------------------------------------------------------------------------
(* Further claims on processFiles and handleCancel, checked under Spec *)

\* C15 as stated: a run started with no input file ends without an error being
\* reported.
C15_EmptyRunNoError ==
    \A r \in DOMAIN runs :
        runs[r].files = <<>> =>
            /\ runs[r].outcome # "failed"
            /\ (r = Len(runs) /\ \A q \in DOMAIN runs : runs[q].pc = "done") => error = Null

\* C17 as stated: a run the user has cancelled never sets the failure message,
\* also when the request in flight at the cancel fails afterwards.
C17_CancelledRunSetsNoError ==
    \A r \in DOMAIN runs :
        runs[r].cancelled => runs[r].outcome \notin {"failed", "ocr failed"}

-----------------------------------------------------------------------------
(* Claims on the ids of a published document, checked under SpecIngest *)

\* C18 as stated: no two blocks of a page of the published document have the
\* same id.
C18_UniqueIdsPerPage ==
    results # Null =>
        \A p \in DOMAIN results[1].pages :
            \A j, k \in DOMAIN results[1].pages[p].blocks :
                j # k => results[1].pages[p].blocks[j].id # results[1].pages[p].blocks[k].id

-----------------------------------------------------------------------------
(* Frame and repetition of the selection handlers, checked under SpecSelect *)

\* block b with the flag of block a
WithFlagOf(b, a) == [b EXCEPT !.isSelected = a.isSelected]

\* C19: a step of toggle, setAll or area selection (and of the thumbnails and
\* mode buttons beside them) keeps the file name, the number and order of the
\* pages, every page but the active one, and on the active page the number and
\* order of the blocks and everything of a block but its isSelected.
C19_SelectionFrame ==
    [][/\ results' # Null
       /\ results'[1].fileName = results[1].fileName
       /\ Len(results'[1].pages) = Len(results[1].pages)
       /\ \A p \in DOMAIN results[1].pages :
             IF p # activePageIndex + 1
             THEN results'[1].pages[p] = results[1].pages[p]
             ELSE /\ results'[1].pages[p].pageNumber = results[1].pages[p].pageNumber
                  /\ results'[1].pages[p].imageUrl = results[1].pages[p].imageUrl
                  /\ Len(results'[1].pages[p].blocks) = Len(results[1].pages[p].blocks)
                  /\ \A k \in DOMAIN results[1].pages[p].blocks :
                        WithFlagOf(results'[1].pages[p].blocks[k],
                                   results[1].pages[p].blocks[k])
                            = results[1].pages[p].blocks[k]]_vars

\* C19 witness: the second page is the active one and holds a cleared block,
\* the first page of two blocks is as it was published
C19_Witness ==
    /\ results # Null
    /\ activePageIndex = 1
    /\ Len(results[1].pages) = 2
    /\ Len(results[1].pages[1].blocks) = 2
    /\ \A k \in DOMAIN results[1].pages[1].blocks : results[1].pages[1].blocks[k].isSelected
    /\ \E k \in DOMAIN results[1].pages[2].blocks : ~results[1].pages[2].blocks[k].isSelected

\* C20: setAll(v) leaves every block of the active page with isSelected = v, and
\* a second setAll(v), or a second area selection with the same rectangle,
\* right after the first changes nothing.
C20_SetAllAndAreaIdempotent ==
    [][/\ \A selected \in BOOLEAN :
             setAllSelection(selected) =>
                 /\ \A k \in DOMAIN activeBlocksAfter :
                       activeBlocksAfter[k].isSelected = selected
                 /\ selectAll(activeBlocksAfter, selected) = activeBlocksAfter
       /\ (lastArea' # Null /\ lastArea' # lastArea) =>
             selectInside(activeBlocksAfter, lastArea'[1].box) = activeBlocksAfter]_vars

\* C20 witness: both blocks of a page carry the same id, so that a toggle
\* reaches the first only, and both are cleared: setAll(false) has acted
C20_Witness ==
    /\ activePageDefined
    /\ Len(activePage.blocks) = 2
    /\ activePage.blocks[1].id = activePage.blocks[2].id
    /\ ~activePage.blocks[1].isSelected
    /\ ~activePage.blocks[2].isSelected

-----------------------------------------------------------------------------
(* Further claims on the export of the document shown, checked under         *)
(* SpecExport                                                                *)

\* C21: while handleExport awaits generateDocx and when it has returned, the
\* pages passed are as they were at the call, in both modes: every block with
\* its isSelected, text, box and tableData, and the blocks of each page in
\* their order; the document of the application is as it was, too.
C21_ExportLeavesInput ==
    (exports # <<>> /\ pc # "idle") =>
        /\ pages = Head(exports).pages
        /\ results # Null
        /\ results[1].pages = Head(exports).pages

\* C21 witness: an export in mode 'all' of one page has come to its end, the
\* two blocks were sorted into another order than the page stores them in
C21_Witness ==
    /\ exports # <<>>
    /\ pc = "done"
    /\ exportAll
    /\ Len(pages) = 1
    /\ Len(sortedBlocks) = 2
    /\ sortedBlocks # pages[1].blocks
    /\ pages = Head(exports).pages

-----------------------------------------------------------------------------
(* The element sequence of the output, checked under SpecDocx *)

\* the elements of block b of page p: the cropped image unless the crop failed,
\* the table and its spacer, or the text elements line after line
ElementsOfBlock(b, p) ==
    IF b.type = IMAGE_PLACEHOLDER
    THEN IF b.id \in cropFailed THEN <<>>
         ELSE <<ImageParagraph(b, [image |-> p.imageUrl, box |-> b.box_2d])>>
    ELSE IF b.type = TABLE /\ b.tableData # <<>>
         THEN <<TableElement(b, tableRows(b.tableData)), SpacerParagraph(b)>>
         ELSE textParagraphs(b)

\* the elements of the blocks ord of page p, block after block
ElementsInOrder(ord, p) == Concat([i \in DOMAIN ord |-> ElementsOfBlock(ord[i], p)])

\* the pages gone past that had eligible blocks
ContributingDone ==
    SelectSeq(SubSeq(pages, 1, PagesDone), LAMBDA p : EligibleOf(p) # <<>>)

\* C22: the output holds one element sequence per contributing page, in the
\* order of the pages (ascending page numbers); the sequence of a page is, for
\* the reading-order sequence of its eligible blocks, the elements of the
\* first block, then those of the second, and so on, each block's elements
\* together and in line or row order.
C22_ElementsInPageAndReadingOrder ==
    /\ Len(sections) = Len(ContributingDone)
    /\ \A j, k \in DOMAIN ContributingDone :
          j < k => ContributingDone[j].pageNumber < ContributingDone[k].pageNumber
    /\ \A k \in DOMAIN sections :
          \E ord \in ArraySort(EligibleOf(ContributingDone[k])) :
              sections[k].children = ElementsInOrder(ord, ContributingDone[k])
    /\ pc = "block" =>
          children = ElementsInOrder(SubSeq(sortedBlocks, 1, blockIdx - 1), pages[pageIdx])

\* C22 witness: two pages have contributed, the first a table and the second
\* the two lines of a paragraph
C22_Witness ==
    /\ pc = "done"
    /\ Len(sections) = 2
    /\ Len(sections[1].children) = 2
    /\ sections[1].children[1].kind = "table"
    /\ sections[1].children[1].src = 11
    /\ Len(sections[2].children) = 2
    /\ sections[2].children[2].kind = "text"
    /\ sections[2].children[2].src = 21

-----------------------------------------------------------------------------
(* SpecText: generateDocx at a text block of a one-page document, for every  *)
(* text within the bounds, the three text types, both isBold values and an   *)
(* indented and an unindented box.                                           *)

TextChars == {"a", "\n", "\t"}
TextTypes == {PARAGRAPH, HEADER, LIST}
TextBoxes == {<<0, 0, 50, 100>>, <<0, 500, 50, 650>>}

TextBlocks ==
    { OCRBlock(11, ty, tx, bx, <<>>, bd, TRUE) :
        ty \in TextTypes, tx \in SeqsUpTo(TextChars, MaxTextLen), bx \in TextBoxes,
        bd \in BOOLEAN }

InitText ==
    /\ AppInit
    /\ \E b \in TextBlocks :
          /\ pages = <<PageResult(1, "img", <<b>>)>>
          /\ blocksToExport = <<b>>
          /\ sortedBlocks = <<b>>
    /\ exportAll = TRUE
    /\ pc = "block"
    /\ pageIdx = 1
    /\ blockIdx = 1
    /\ children = <<>>
    /\ sections = <<>>
    /\ artifact = FALSE
    /\ cropFailed = {}

NextText == TextBlock

SpecText == InitText /\ [][NextText]_vars

-----------------------------------------------------------------------------
(* Claims on the text branch, checked under SpecText *)

\* the places of the line breaks of a text, with 0 and Len + 1 as the ends
BreaksOf(text) == {0, Len(text) + 1} \cup {i \in DOMAIN text : text[i] = "\n"}

\* the k-th of the places above, counted from 0
RECURSIVE NthBreak(_, _)
NthBreak(text, k) ==
    IF k = 0 THEN 0
    ELSE CHOOSE i \in BreaksOf(text) :
            /\ i > NthBreak(text, k - 1)
            /\ \A j \in BreaksOf(text) : j > NthBreak(text, k - 1) => i <= j

\* the k-th line of a text, counted from 1
NthLine(text, k) == SubSeq(text, NthBreak(text, k - 1) + 1, NthBreak(text, k) - 1)

\* the characters of an element's text that are not white space
Letters(t) == SelectSeq(t, LAMBDA c : c \notin {" ", "\t"})

\* C23: a text block emits one text element per line of its text, in line
\* order; each is bold exactly if the block is a header or has isBold, the
\* elements of a header are larger than those of other text, and only the
\* element of the last line has the larger trailing spacing.
C23_OneElementPerLine ==
    blockIdx = 2 =>
        LET b == sortedBlocks[1]
            n == Cardinality(BreaksOf(b.text)) - 1
        IN  /\ Len(children) = n
            /\ \A k \in DOMAIN children :
                  /\ children[k].kind = "text"
                  /\ Letters(children[k].text) = Letters(NthLine(b.text, k))
                  /\ children[k].bold = (b.type = HEADER \/ b.isBold)
                  /\ (b.type = HEADER) => children[k].size > 22
                  /\ (b.type # HEADER) => children[k].size = 22
                  /\ \A j \in DOMAIN children :
                        (j = n /\ k # n) => children[j].after > children[k].after

\* C23 witness: a bold paragraph of two lines was emitted
C23_Witness ==
    /\ blockIdx = 2
    /\ sortedBlocks[1].type = PARAGRAPH
    /\ sortedBlocks[1].isBold
    /\ sortedBlocks[1].text = <<"a", "\n", "a">>
    /\ Len(children) = 2
    /\ children[1].bold
    /\ children[1].after < children[2].after

-----------------------------------------------------------------------------
(* Further claims on the Table Reconstructor, checked under SpecTable *)

\* the places in the cell list td of the cells at (r, c)
PlacesAt(td, r, c) == {i \in DOMAIN td : td[i].row = r /\ td[i].col = c}

\* the (row, col) pairs listed, each once
PositionsOf(td) == {<<td[i].row, td[i].col>> : i \in DOMAIN td}

\* C24: when several cells of the list share a (row, col), the grid has one
\* cell there, with the text of the first of them in list order, and the grid
\* has the rows and columns the listed positions span, however often a
\* position is listed.
C24_DuplicateCellsFirstWins ==
    \A k \in DOMAIN children :
        children[k].kind = "table" =>
            LET td == SourceBlock(children[k]).tableData
                grid == children[k].rows
            IN  /\ Len(grid) = SetMax({q[1] : q \in PositionsOf(td)}) + 1
                /\ \A r \in DOMAIN grid :
                      Len(grid[r]) = SetMax({q[2] : q \in PositionsOf(td)}) + 1
                /\ \A q \in PositionsOf(td) :
                      Cardinality(PlacesAt(td, q[1], q[2])) > 1 =>
                          \E i \in PlacesAt(td, q[1], q[2]) :
                              /\ \A j \in PlacesAt(td, q[1], q[2]) : i <= j
                              /\ grid[q[1] + 1][q[2] + 1].text = td[i].text

\* C24 witness: (1, 0) is listed twice, first with "A" and then with the empty
\* text; the grid of two rows and one column holds "A" there
C24_Witness ==
    /\ Len(children) = 2
    /\ children[1].kind = "table"
    /\ sortedBlocks[1].tableData = <<TableCell("A", 1, 0), TableCell("", 1, 0)>>
    /\ Len(children[1].rows) = 2
    /\ Len(children[1].rows[2]) = 1
    /\ children[1].rows[2][1].text = "A"

-----------------------------------------------------------------------------
(* Claims on the documents published, checked under Spec *)

\* the run a page was produced by (the first part of the name of its image)
RunOfPage(page) == page.imageUrl[1]

\* C25: the step that starts a run leaves no document of an earlier run
\* loaded, and a document, whenever one is loaded, holds the pages gathered by
\* one single run, all of them and nothing else.
C25_OneRunPerDocument ==
    [][/\ Len(runs') > Len(runs) =>
             (results' = Null \/ results'[1].fileName[1] = Len(runs'))
       /\ results' # Null =>
             \E r \in DOMAIN runs' :
                 /\ results'[1].fileName[1] = r
                 /\ results'[1].pages = runs'[r].allPages
                 /\ \A k \in DOMAIN results'[1].pages :
                       RunOfPage(results'[1].pages[k]) = r]_vars

\* C25 witness: the first run has published its pages, the document was left
\* for the home view, and the second run is at the OCR of its first page with
\* no document loaded
C25_Witness ==
    /\ Len(runs) = 2
    /\ runs[1].outcome = "published"
    /\ ~runs[1].cancelled
    /\ Len(runs[1].allPages) > 0
    /\ runs[2].pc = "ocr"
    /\ runs[2].allPages = <<>>
    /\ results = Null

-----------------------------------------------------------------------------
(* src/App.tsx lines 601-615: the textarea of a block of the preview list.   *)
(* SpecEdit: the workspace of a document just published, under edits of the  *)
(* block texts, toggles and the thumbnails.                                  *)

\* the values typed into a textarea
EditTexts == {<<"a">>, <<"e">>}

\* lines 607-608: blocks.find(blk => blk.id === block.id) and b.text = val
editBlocks(blocks, blockId, val) ==
    LET blockIndex == findIndex(blocks, blockId)
    IN  IF blockIndex # 0 THEN [blocks EXCEPT ![blockIndex].text = val] ELSE blocks

\* lines 603-611: onChange of the textarea of the block with id blockId of the
\* active page; the block object found is written in place
editBlockText(blockId, val) ==
    /\ WorkspaceShown
    /\ activePageDefined
    /\ \E k \in DOMAIN activePage.blocks : activePage.blocks[k].id = blockId
    /\ results' = withActiveBlocks(editBlocks(activePage.blocks, blockId, val))
    /\ lastArea' = Null
    /\ UNCHANGED <<currentView, isLoading, activePageIndex, error, exportMode, cancelRef,
                   runs, exports>>
    /\ UNCHANGED <<docxVars, ocrCall>>

NextEdit ==
    \/ \E blockId \in SelIds, val \in EditTexts : editBlockText(blockId, val)
    \/ \E blockId \in SelIds : toggleBlockSelection(blockId)
    \/ \E idx \in 0..(MaxSelPages - 1) : setActivePageIndex(idx)

SpecEdit == InitSelect /\ [][NextEdit]_vars

\* the pages of the loaded document as its run gathered them
PagesAsIngested == runs[results[1].fileName[1]].allPages

\* C26 as stated: every block of the loaded document is as it was ingested but
\* for its isSelected: id, type, text, box and tableData are as received.
C26_OnlySelectionChanges ==
    results # Null =>
        /\ Len(results[1].pages) = Len(PagesAsIngested)
        /\ \A p \in DOMAIN results[1].pages :
              /\ Len(results[1].pages[p].blocks) = Len(PagesAsIngested[p].blocks)
              /\ \A k \in DOMAIN results[1].pages[p].blocks :
                    WithFlagOf(results[1].pages[p].blocks[k], PagesAsIngested[p].blocks[k])
                        = PagesAsIngested[p].blocks[k]

-----------------------------------------------------------------------------
(* Claims on the run lifecycle, checked under Spec.                          *)

\* the calls of processFiles that have not reached the end of their finally
RunsExecuting == {r \in DOMAIN runs : runs[r].pc # "done"}

\* C27 as stated: at most one call of processFiles is executing at any time,
\* and while one is executing the loading flag, which guards the upload, is set.
C27_OneRunAtATime ==
    /\ Cardinality(RunsExecuting) <= 1
    /\ RunsExecuting # {} => isLoading

\* C28 as stated: whenever a document is loaded, the active page index is
\* smaller than its number of pages.
C28_ActivePageExists ==
    results # Null => activePageIndex < Len(results[1].pages)

\* C30 as stated: whenever the current view is the workspace, a document is
\* loaded.
C30_WorkspaceHasDocument ==
    currentView = "workspace" => results # Null

-----------------------------------------------------------------------------
(* SpecLive: Spec with the external operations of every run settling: a      *)
(* pending open of a PDF, read of an image or OCR call eventually succeeds or *)
(* fails.  Nothing is assumed of the user.                                    *)

\* the pending external operation of run r succeeds or fails
Settles(r) ==
    /\ r \in DOMAIN runs
    /\ \/ \E n \in 1..MaxPdfPages : OpenPdfResolves(r, n)
       \/ OpenPdfRejects(r)
       \/ ReadImageResolves(r)
       \/ ReadImageFails(r)
       \/ \E blocks \in OcrResults : OcrResolves(r, blocks)
       \/ OcrRejects(r)

SpecLive == Spec /\ \A r \in 1..MaxRuns : WF_vars(Settles(r))

\* the ways a call of processFiles ends
Outcomes == {"published", "cancelled", "failed", "ocr failed"}

\* C29 as stated: with every external operation settling, every started run
\* reaches its end with one of the outcomes, and the loading flag set by a run
\* that is executing is cleared.
C29_EveryRunFinishes ==
    \A r \in 1..MaxRuns :
        /\ (r \in DOMAIN runs) ~>
               (r \in DOMAIN runs /\ runs[r].pc = "done" /\ runs[r].outcome \in Outcomes)
        /\ (r \in DOMAIN runs /\ runs[r].pc # "done") ~> ~isLoading

=============================================================================
